---- MODULE Spec2Model ----
(***************************************************************************)
(* Model of Dataset_Gen.py: the proportional-bias sampler, the             *)
(* compositional-bias sampler and the __main__ orchestration that calls    *)
(* them four times (NETD-1 .. NETD-4).                                     *)
(*                                                                         *)
(* The input tree is <root>/<service>/<application>/<file>.  A sample file *)
(* is identified by its source path <<service, application, n>>.  The      *)
(* output tree is the set of copies <<dataset, split, service, file>>; a   *)
(* destination directory <output>/<split>/<service> exists exactly when a  *)
(* copy was made into it (os.makedirs is called right before each copy).   *)
(*                                                                         *)
(* Entries of a directory that are not directories (dropped by the isdir   *)
(* filters of the listings) are left out of the tree, and so is the base   *)
(* name under which a copy lands in its flat destination directory.        *)
(*                                                                         *)
(* The sample counts 400 and 100 of the source are scaled down (see        *)
(* total_train_dominant_samples, total_test_samples) so that pools larger  *)
(* and smaller than the requested counts can be enumerated.  A ratio is a  *)
(* rational num/den; int(400 / ratio) and math.ceil(n * p) are computed on *)
(* it exactly.                                                             *)
(***************************************************************************)
EXTENDS Integers, Sequences, FiniteSets, TLC

VARIABLES
    inputOK,    \* os.path.isdir(ISCX_BASE_PATH)
    outputOK,   \* os.path.isdir(NETD_OUTPUT_PATH)
    labels,     \* service-class directories under the input root
    appdirs,    \* application directories <<service, app>>
    files,      \* sample files <<service, app, n>> of the input tree
    out,        \* copies made: <<dataset, split, service, source file>>
    pcMain,     \* position of __main__
    calls,      \* sampler invocations started so far, in order
    arg,        \* arguments of each invocation
    pc,         \* position of each invocation
    todo,       \* what each invocation's outer loop still has to visit
    loc,        \* locals of a proportional invocation (last class processed)
    cloc        \* locals of a compositional invocation (last service processed)

vars == <<inputOK, outputOK, labels, appdirs, files, out, pcMain, calls,
          arg, pc, todo, loc, cloc>>

tree == <<labels, appdirs, files>>

(***************************************************************************)
(* Bounds                                                                  *)
(***************************************************************************)
\* total_train_dominant_samples = 400 in the source, scaled
total_train_dominant_samples == 3
\* total_test_samples = 100 in the source, scaled
total_test_samples == 1
\* most files in one application directory
MaxFiles == 4
\* most application directories on disk
MaxAppDirs == 3
\* most files in one input tree
MaxTreeFiles == 6
\* most applications named by the mapping handed to the compositional sampler
MaxMappedApps == 5
\* most files in one application directory where file counts matter little
MaxFewFiles == 1

Invocations == 1..4

Min(a, b) == IF a < b THEN a ELSE b

(***************************************************************************)
(* Configuration of __main__                                               *)
(***************************************************************************)
SERVICE_APP_MAPPING ==
    << [service |-> "Chat",
        apps |-> <<"AIMchat", "facebookchat", "hangoutschat", "icqchat", "skypechat">>],
       [service |-> "Email", apps |-> <<"gmail", "imap", "pop", "smtp">>],
       [service |-> "File Transfer", apps |-> <<"ftps", "sftp", "skypefile">>],
       [service |-> "P2P", apps |-> <<"bittorrent">>],
       [service |-> "Streaming", apps |-> <<"vimeo", "youtube">>],
       [service |-> "VoIP", apps |-> <<"facebookvoip", "hangoutsvoip", "skypevoip">>] >>

Range(s) == {s[n] : n \in 1..Len(s)}

\* The four literal invocations of __main__, in program order.  A ratio or
\* a training ratio is the rational num/den (3, 1/3, 0.8, 0.2).
MainArgsShared ==
    << [kind |-> "prop", out |-> "NETD-1", num |-> 3, den |-> 1, components |-> <<>>],
       [kind |-> "prop", out |-> "NETD-1", num |-> 1, den |-> 3, components |-> <<>>],
       [kind |-> "comp", out |-> "NETD-3", num |-> 4, den |-> 5,
        components |-> SERVICE_APP_MAPPING],
       [kind |-> "comp", out |-> "NETD-4", num |-> 1, den |-> 5,
        components |-> SERVICE_APP_MAPPING] >>

MainArgs ==
    << [kind |-> "prop", out |-> "NETD-1", num |-> 3, den |-> 1, components |-> <<>>],
       [kind |-> "prop", out |-> "NETD-2", num |-> 1, den |-> 3, components |-> <<>>],
       [kind |-> "comp", out |-> "NETD-3", num |-> 4, den |-> 5,
        components |-> SERVICE_APP_MAPPING],
       [kind |-> "comp", out |-> "NETD-4", num |-> 1, den |-> 5,
        components |-> SERVICE_APP_MAPPING] >>

NoArg == [kind |-> "none", out |-> "", num |-> 1, den |-> 1, components |-> <<>>]

NoLoc ==
    [label |-> "", dominant_app |-> "", dominant_files |-> {}, minor_files |-> {},
     train_dominant_samples |-> {}, train_minor_samples |-> {},
     remaining_dominant |-> {}, remaining_minor |-> {},
     test_dominant_samples |-> {}, test_minor_samples |-> {}]

NoCLoc == [service |-> "", apps |-> {}, training_apps |-> {}]

(***************************************************************************)
(* Helpers of the proportional sampler                                     *)
(***************************************************************************)
\* applications = the sub-directories of the class directory
Applications(label) == {p[2] : p \in {q \in appdirs : q[1] = label}}

\* os.walk over one application directory
WalkFiles(label, app) == {f \in files : f[1] = label /\ f[2] = app}

\* "if not applications: continue"
SkipClassNever(applications) == FALSE

SkipClass(applications) == applications = {}

DominantFiles(label, dominant_app) == WalkFiles(label, dominant_app)

\* the minor pool after both fallbacks
MinorFilesNoWarn(label, dominant_app) ==
    LET applications == Applications(label)
        walked == UNION {WalkFiles(label, app) : app \in applications \ {dominant_app}}
    IN  IF Cardinality(applications) = 1
        THEN DominantFiles(label, dominant_app)
        ELSE walked

MinorFiles(label, dominant_app) ==
    LET applications == Applications(label)
        walked == UNION {WalkFiles(label, app) : app \in applications \ {dominant_app}}
        single == IF Cardinality(applications) = 1
                  THEN DominantFiles(label, dominant_app)
                  ELSE walked
    IN  IF single = {} THEN DominantFiles(label, dominant_app) ELSE single

\* int(total_train_dominant_samples / dominant_ratio), the ratio being num/den
NumMinorSamples(a) == (total_train_dominant_samples * a.den) \div a.num

TrainDominantCount(n) == Min(total_train_dominant_samples, n)

TrainMinorCountUncapped(a, n) == NumMinorSamples(a)

TrainMinorCount(a, n) == Min(NumMinorSamples(a), n)

TestCount(n) == Min(total_test_samples, n)

\* set(pool) - set(train samples)
RemainingAll(pool, samples) == pool

Remaining(pool, samples) == pool \ samples

\* random.sample raises ValueError when asked for more than there is
SampleRaises(n, k) == k > n \/ k < 0

\* random.sample(population, k) over a population without a meaningful order
Samples(S, k) == {T \in SUBSET S : Cardinality(T) = k}

RECURSIVE Orders(_)
\* list(a set): the elements in some order
Orders(S) ==
    IF S = {} THEN {<<>>}
    ELSE UNION {{Append(list, x) : list \in Orders(S \ {x})} : x \in S}

\* the positions random.sample can pick in a list of length n
PositionSets(n, k) == {P \in SUBSET (1..n) : Cardinality(P) = k}

\* the elements of a list at the picked positions
Pick(list, P) == {list[p] : p \in P}

\* random.sample(list(S), k) when the generator picks the positions P: what
\* comes out for the orders list(S) can have
PickedInSomeOrder(S, P) == {Pick(list, P) : list \in Orders(S)}

OutputOf(dataset) == {c \in out : c[1] = dataset}

Copied(dataset, split, label) ==
    {c[4] : c \in {d \in out : d[1] = dataset /\ d[2] = split /\ d[3] = label}}

\* shutil.copy of a list of files into <output>/<split>/<label>/
CopyAll(dataset, split, label, samples) ==
    {<<dataset, split, label, f>> : f \in samples}

(***************************************************************************)
(* create_proportional_bias_dataset, invocation i                          *)
(***************************************************************************)
\* a class directory without application directories is skipped
PropSkip(i) ==
    /\ arg[i].kind = "prop" /\ pc[i] = "loop"
    /\ \E label \in todo[i] :
          /\ SkipClass(Applications(label))
          /\ todo' = [todo EXCEPT ![i] = @ \ {label}]
    /\ UNCHANGED <<inputOK, outputOK, labels, appdirs, files, out, pcMain,
                   calls, arg, pc, loc, cloc>>

\* the locals of the loop body once the four draws are made
ClassLocals(label, dominant_app, train_dominant_samples, train_minor_samples, test_dominant_samples, test_minor_samples) ==
    [label |-> label, dominant_app |-> dominant_app,
     dominant_files |-> DominantFiles(label, dominant_app),
     minor_files |-> MinorFiles(label, dominant_app),
     train_dominant_samples |-> train_dominant_samples,
     train_minor_samples |-> train_minor_samples,
     remaining_dominant |->
         Remaining(DominantFiles(label, dominant_app), train_dominant_samples),
     remaining_minor |->
         Remaining(MinorFiles(label, dominant_app), train_minor_samples),
     test_dominant_samples |-> test_dominant_samples,
     test_minor_samples |-> test_minor_samples]

\* the save loop: the train samples, then the test samples, are copied
SaveSamples(dataset, l) ==
    CopyAll(dataset, "train", l.label,
            l.train_dominant_samples \cup l.train_minor_samples)
    \cup CopyAll(dataset, "test", l.label,
                 l.test_dominant_samples \cup l.test_minor_samples)

\* a draw of the class raises
DrawRaises(a, label, dominant_app) ==
    LET nd == Cardinality(DominantFiles(label, dominant_app))
        nm == Cardinality(MinorFiles(label, dominant_app))
    IN  SampleRaises(nd, TrainDominantCount(nd)) \/ SampleRaises(nm, TrainMinorCount(a, nm))

\* the four draws of one class, given the dominant application, and the save
PropDraws(i, label, dominant_app) ==
    LET dominant_files == DominantFiles(label, dominant_app)
        minor_files == MinorFiles(label, dominant_app)
    IN  IF DrawRaises(arg[i], label, dominant_app)
        THEN /\ pc' = [pc EXCEPT ![i] = "error"]
             /\ UNCHANGED <<loc, out>>
        ELSE \E train_dominant_samples \in
                    Samples(dominant_files, TrainDominantCount(Cardinality(dominant_files))),
                train_minor_samples \in
                    Samples(minor_files, TrainMinorCount(arg[i], Cardinality(minor_files))) :
               LET remaining_dominant == Remaining(dominant_files, train_dominant_samples)
                   remaining_minor == Remaining(minor_files, train_minor_samples)
                   nd == Cardinality(remaining_dominant)
                   nm == Cardinality(remaining_minor)
               IN  \E Pd \in PositionSets(nd, TestCount(nd)),
                      Pm \in PositionSets(nm, TestCount(nm)) :
                   \E test_dominant_samples \in PickedInSomeOrder(remaining_dominant, Pd),
                      test_minor_samples \in PickedInSomeOrder(remaining_minor, Pm) :
                      LET l == ClassLocals(label, dominant_app, train_dominant_samples,
                                           train_minor_samples, test_dominant_samples,
                                           test_minor_samples)
                      IN  /\ loc' = [loc EXCEPT ![i] = l]
                          /\ out' = out \cup SaveSamples(arg[i].out, l)
                          /\ UNCHANGED pc

\* the loop body for one class that has applications
PropClass(i) ==
    /\ arg[i].kind = "prop" /\ pc[i] = "loop"
    /\ \E label \in todo[i] :
          /\ ~SkipClass(Applications(label))
          /\ todo' = [todo EXCEPT ![i] = @ \ {label}]
          /\ IF Applications(label) = {}
             THEN \* random.choice of an empty list raises IndexError
                  /\ pc' = [pc EXCEPT ![i] = "error"]
                  /\ UNCHANGED <<loc, out>>
             ELSE \E dominant_app \in Applications(label) :
                     PropDraws(i, label, dominant_app)
    /\ UNCHANGED <<inputOK, outputOK, labels, appdirs, files, pcMain,
                   calls, arg, cloc>>

\* the loop over the service classes is exhausted
PropReturn(i) ==
    /\ arg[i].kind = "prop" /\ pc[i] = "loop" /\ todo[i] = {}
    /\ pc' = [pc EXCEPT ![i] = "done"]
    /\ UNCHANGED <<inputOK, outputOK, labels, appdirs, files, out, pcMain,
                   calls, arg, todo, loc, cloc>>

(***************************************************************************)
(* create_compositional_bias_dataset, invocation i                         *)
(***************************************************************************)
\* math.ceil(len(apps) * training_ratio), the ratio being num/den
NumAppsForTrainingFloor(a, n) == (n * a.num) \div a.den

NumAppsForTraining(a, n) == (n * a.num + a.den - 1) \div a.den

\* os.path.exists(<base>/<service>/<app>)
AppExists(service, app) == <<service, app>> \in appdirs

\* the files copied for a collection of applications of one service
FilesOfApps(service, apps) ==
    UNION {IF AppExists(service, app) THEN WalkFiles(service, app) ELSE {} : app \in apps}

\* the applications whose files go to the test split
TestAppsHeldOut(apps, training_apps) == apps \ training_apps

TestApps(apps, training_apps) == apps

\* the loop body for one (service, apps) entry
CompService(i) ==
    /\ arg[i].kind = "comp" /\ pc[i] = "loop" /\ todo[i] # <<>>
    /\ LET service == Head(todo[i]).service
           apps == Range(Head(todo[i]).apps)
           num_apps_for_training == NumAppsForTraining(arg[i], Len(Head(todo[i]).apps))
       IN  IF SampleRaises(Len(Head(todo[i]).apps), num_apps_for_training)
           THEN /\ pc' = [pc EXCEPT ![i] = "error"]
                /\ UNCHANGED <<cloc, out>>
           ELSE \E training_apps \in Samples(apps, num_apps_for_training) :
                   /\ cloc' = [cloc EXCEPT ![i] =
                         [service |-> service, apps |-> apps,
                          training_apps |-> training_apps]]
                   /\ out' = out
                         \cup CopyAll(arg[i].out, "train", service,
                                      FilesOfApps(service, training_apps))
                         \cup CopyAll(arg[i].out, "test", service,
                                      FilesOfApps(service, TestApps(apps, training_apps)))
                   /\ UNCHANGED pc
    /\ todo' = [todo EXCEPT ![i] = Tail(@)]
    /\ UNCHANGED <<inputOK, outputOK, labels, appdirs, files, pcMain,
                   calls, arg, loc>>

\* the loop over the mapping is exhausted
CompReturn(i) ==
    /\ arg[i].kind = "comp" /\ pc[i] = "loop" /\ todo[i] = <<>>
    /\ pc' = [pc EXCEPT ![i] = "done"]
    /\ UNCHANGED <<inputOK, outputOK, labels, appdirs, files, out, pcMain,
                   calls, arg, todo, loc, cloc>>

\* what the outer loop of an invocation iterates over
InitialTodo(a) == IF a.kind = "prop" THEN labels ELSE a.components

(***************************************************************************)
(* __main__                                                                *)
(***************************************************************************)
\* "if not isdir(ISCX_BASE_PATH) or not isdir(NETD_OUTPUT_PATH)"
InvalidRootsBoth == ~inputOK /\ ~outputOK

InvalidRoots == ~inputOK \/ ~outputOK

Validate ==
    /\ pcMain = "start"
    /\ pcMain' = IF InvalidRoots THEN "aborted" ELSE "run"
    /\ UNCHANGED <<inputOK, outputOK, labels, appdirs, files, out, calls,
                   arg, pc, todo, loc, cloc>>

\* the i-th call of __main__, made when the previous call has returned
Call(i) ==
    /\ pcMain = "run"
    /\ i = Len(calls) + 1
    /\ IF i = 1 THEN TRUE ELSE pc[i - 1] = "done"
    /\ calls' = Append(calls, i)
    /\ pc' = [pc EXCEPT ![i] = "loop"]
    /\ todo' = [todo EXCEPT ![i] = InitialTodo(arg[i])]
    /\ UNCHANGED <<inputOK, outputOK, labels, appdirs, files, out, pcMain,
                   arg, loc, cloc>>

\* the script ends after the fourth call
Exit ==
    /\ pcMain = "run" /\ Len(calls) = 4 /\ pc[4] = "done"
    /\ pcMain' = "exit"
    /\ UNCHANGED <<inputOK, outputOK, labels, appdirs, files, out, calls,
                   arg, pc, todo, loc, cloc>>

(***************************************************************************)
(* Input trees                                                             *)
(***************************************************************************)
\* the application directories the mapping names
MappedAppPaths(components) ==
    UNION {{<<components[n].service, app>> : app \in Range(components[n].apps)}
           : n \in 1..Len(components)}

\* an input tree with the class directories L, at most maxDirs application
\* directories among A, at most maxFiles files in each and at most
\* MaxTreeFiles files in all
InitTree(L, A, maxDirs, maxFiles) ==
    /\ labels = L
    /\ appdirs \in {D \in SUBSET A : Cardinality(D) <= maxDirs}
    /\ \E cnt \in [appdirs -> 0..maxFiles] :
          files = UNION {{<<d[1], d[2], n>> : n \in 1..cnt[d]} : d \in appdirs}
    /\ Cardinality(files) <= MaxTreeFiles


\* the ratios a proportional invocation is tried with, as <<num, den>>
DominantRatios == {<<3, 1>>, <<1, 1>>, <<1, 3>>}

\* the training ratios a compositional invocation is tried with, as <<num, den>>
TrainingRatios == {<<1, 5>>, <<1, 2>>, <<4, 5>>, <<1, 1>>}

\* the class directories of the input trees: classes of up to three and up to one
\* applications
DiskEntries == SubSeq(SERVICE_APP_MAPPING, 3, 4)

DiskLabels == {DiskEntries[n].service : n \in 1..Len(DiskEntries)}

DiskAppPaths == MappedAppPaths(DiskEntries)

\* the one class directory of the input trees of the side-by-side runs
ParEntries == SubSeq(SERVICE_APP_MAPPING, 5, 5)

\* the class directories of the input trees of the two seeded runs
TwinEntries == SubSeq(SERVICE_APP_MAPPING, 4, 5)

RECURSIVE Restrict(_, _, _)
\* the entries of a mapping at the indices I, in the mapping's order
Restrict(s, I, n) ==
    IF n > Len(s) THEN <<>>
    ELSE (IF n \in I THEN <<s[n]>> ELSE <<>>) \o Restrict(s, I, n + 1)

\* the mappings a compositional invocation is tried with
SubMappings ==
    {m \in {Restrict(SERVICE_APP_MAPPING, I, 1) :
               I \in SUBSET (1..Len(SERVICE_APP_MAPPING))} :
        /\ m # <<>>
        /\ Cardinality(MappedAppPaths(m)) <= MaxMappedApps}

(***************************************************************************)
(* Specifications                                                          *)
(***************************************************************************)
NoCalls ==
    /\ pc = [i \in Invocations |-> "idle"]
    /\ todo = [i \in Invocations |-> {}]
    /\ loc = [i \in Invocations |-> NoLoc]
    /\ cloc = [i \in Invocations |-> NoCLoc]
    /\ out = {}

\* __main__ from its first line
Init ==
    /\ inputOK \in BOOLEAN
    /\ outputOK \in BOOLEAN
    /\ IF inputOK
       THEN InitTree(DiskLabels, DiskAppPaths, MaxAppDirs, MaxFewFiles)
       ELSE labels = {} /\ appdirs = {} /\ files = {}
    /\ pcMain = "start"
    /\ calls = <<>>
    /\ arg = MainArgs
    /\ NoCalls

Step(i) ==
    \/ PropSkip(i)
    \/ PropClass(i)
    \/ PropReturn(i)
    \/ CompService(i)
    \/ CompReturn(i)

Next ==
    \/ Validate
    \/ \E i \in Invocations : Call(i)
    \/ \E i \in Invocations : Step(i)
    \/ Exit

Spec == Init /\ [][Next]_vars

\* one sampler called on its own with the arguments a
Called(a) ==
    /\ inputOK = TRUE
    /\ outputOK = TRUE
    /\ pcMain = "called"
    /\ calls = <<1>>
    /\ arg = [i \in Invocations |-> IF i = 1 THEN a ELSE NoArg]
    /\ pc = [i \in Invocations |-> IF i = 1 THEN "loop" ELSE "idle"]
    /\ todo = [i \in Invocations |-> IF i = 1 THEN InitialTodo(a) ELSE {}]
    /\ loc = [i \in Invocations |-> NoLoc]
    /\ cloc = [i \in Invocations |-> NoCLoc]
    /\ out = {}

\* create_proportional_bias_dataset on any small tree with any of the ratios
InitProp ==
    /\ InitTree(DiskLabels, DiskAppPaths, MaxAppDirs, MaxFiles)
    /\ \E r \in DominantRatios :
          Called([kind |-> "prop", out |-> "NETD-1", num |-> r[1], den |-> r[2],
                  components |-> <<>>])

NextProp == PropSkip(1) \/ PropClass(1) \/ PropReturn(1)

SpecProp == InitProp /\ [][NextProp]_vars

\* create_compositional_bias_dataset on any small mapping and tree
InitComp ==
    \E m \in SubMappings, r \in TrainingRatios :
       /\ InitTree({m[n].service : n \in 1..Len(m)}, MappedAppPaths(m),
                   MaxMappedApps, MaxFewFiles)
       /\ Called([kind |-> "comp", out |-> "NETD-3", num |-> r[1], den |-> r[2],
                  components |-> m])

NextComp == CompService(1) \/ CompReturn(1)

SpecComp == InitComp /\ [][NextComp]_vars


\* the four invocations started side by side by an external driver
InitPar ==
    /\ inputOK = TRUE
    /\ outputOK = TRUE
    /\ InitTree({ParEntries[n].service : n \in 1..Len(ParEntries)},
                MappedAppPaths(ParEntries), MaxAppDirs, MaxFewFiles)
    /\ pcMain = "parallel"
    /\ calls = <<>>
    /\ arg = MainArgs
    /\ pc = [i \in Invocations |-> "loop"]
    /\ todo = [i \in Invocations |-> InitialTodo(arg[i])]
    /\ loc = [i \in Invocations |-> NoLoc]
    /\ cloc = [i \in Invocations |-> NoCLoc]
    /\ out = {}

NextPar == \E i \in Invocations : Step(i)

SpecPar == InitPar /\ [][NextPar]_vars

(***************************************************************************)
(* Two runs of the proportional sampler on the same tree with the random   *)
(* source seeded alike.  Run 1 and run 2 meet the same directory listings  *)
(* and, the generator being in the same state, every random.choice and     *)
(* random.sample picks the same positions in both; only the order in which *)
(* list(set - set) enumerates a set is each run's own.                     *)
(***************************************************************************)
TwinSkip ==
    /\ pc[1] = "loop" /\ pc[2] = "loop"
    /\ \E label \in todo[1] :
          /\ SkipClass(Applications(label))
          /\ todo' = [todo EXCEPT ![1] = @ \ {label}, ![2] = @ \ {label}]
    /\ UNCHANGED <<inputOK, outputOK, labels, appdirs, files, out, pcMain,
                   calls, arg, pc, loc, cloc>>

TwinClass ==
    /\ pc[1] = "loop" /\ pc[2] = "loop"
    /\ \E label \in todo[1] :
          /\ ~SkipClass(Applications(label))
          /\ todo' = [todo EXCEPT ![1] = @ \ {label}, ![2] = @ \ {label}]
          /\ \E dominant_app \in Applications(label) :
               LET dominant_files == DominantFiles(label, dominant_app)
                   minor_files == MinorFiles(label, dominant_app)
               IN  \E train_dominant_samples \in
                          Samples(dominant_files, TrainDominantCount(Cardinality(dominant_files))),
                      train_minor_samples \in
                          Samples(minor_files, TrainMinorCount(arg[1], Cardinality(minor_files))) :
                     LET remaining_dominant == Remaining(dominant_files, train_dominant_samples)
                         remaining_minor == Remaining(minor_files, train_minor_samples)
                         nd == Cardinality(remaining_dominant)
                         nm == Cardinality(remaining_minor)
                     IN  \E Pd \in PositionSets(nd, TestCount(nd)),
                            Pm \in PositionSets(nm, TestCount(nm)) :
                         \E td1 \in PickedInSomeOrder(remaining_dominant, Pd),
                            tm1 \in PickedInSomeOrder(remaining_minor, Pm),
                            td2 \in PickedInSomeOrder(remaining_dominant, Pd),
                            tm2 \in PickedInSomeOrder(remaining_minor, Pm) :
                            LET l1 == ClassLocals(label, dominant_app, train_dominant_samples,
                                                  train_minor_samples, td1, tm1)
                                l2 == ClassLocals(label, dominant_app, train_dominant_samples,
                                                  train_minor_samples, td2, tm2)
                            IN  /\ loc' = [loc EXCEPT ![1] = l1, ![2] = l2]
                                /\ out' = out \cup SaveSamples(arg[1].out, l1)
                                              \cup SaveSamples(arg[2].out, l2)
    /\ UNCHANGED <<inputOK, outputOK, labels, appdirs, files, pcMain,
                   calls, arg, pc, cloc>>

TwinReturn ==
    /\ pc[1] = "loop" /\ pc[2] = "loop" /\ todo[1] = {}
    /\ pc' = [pc EXCEPT ![1] = "done", ![2] = "done"]
    /\ UNCHANGED <<inputOK, outputOK, labels, appdirs, files, out, pcMain,
                   calls, arg, todo, loc, cloc>>

InitTwin ==
    /\ inputOK = TRUE
    /\ outputOK = TRUE
    /\ InitTree({TwinEntries[n].service : n \in 1..Len(TwinEntries)},
                MappedAppPaths(TwinEntries), MaxAppDirs, MaxFiles)
    /\ pcMain = "twice"
    /\ calls = <<>>
    /\ \E r \in DominantRatios :
          arg = [i \in Invocations |->
                   IF i \in {1, 2}
                   THEN [kind |-> "prop", out |-> IF i = 1 THEN "run-1" ELSE "run-2",
                         num |-> r[1], den |-> r[2], components |-> <<>>]
                   ELSE NoArg]
    /\ pc = [i \in Invocations |-> IF i \in {1, 2} THEN "loop" ELSE "idle"]
    /\ todo = [i \in Invocations |-> IF i \in {1, 2} THEN labels ELSE {}]
    /\ loc = [i \in Invocations |-> NoLoc]
    /\ cloc = [i \in Invocations |-> NoCLoc]
    /\ out = {}

NextTwin == TwinSkip \/ TwinClass \/ TwinReturn

SpecTwin == InitTwin /\ [][NextTwin]_vars


(***************************************************************************)
(* Properties of create_proportional_bias_dataset (SpecProp)               *)
(***************************************************************************)
\* invocation i is a proportional one and loc[i] holds the draws of a class
Sampled(i) == arg[i].kind = "prop" /\ loc[i].label # ""

TrainSplit(l) == l.train_dominant_samples \cup l.train_minor_samples

TestSplit(l) == l.test_dominant_samples \cup l.test_minor_samples

\* C1: for every class processed, the files assigned to the train split and
\* the files assigned to the test split of that class are disjoint.
C1_TrainTestDisjoint ==
    \A i \in Invocations :
       Sampled(i) => TrainSplit(loc[i]) \cap TestSplit(loc[i]) = {}

\* the class has at least two applications and each holds at least one file
TwoAppsWithFiles(label) ==
    /\ Cardinality(Applications(label)) >= 2
    /\ \A app \in Applications(label) : \E f \in files : f[1] = label /\ f[2] = app

\* C2: in a class with at least two applications and at least one file in
\* each, train_dominant and test_dominant share no file, and train_minor and
\* test_minor share no file, whichever application is dominant.
C2_PairwiseDisjoint ==
    \A i \in Invocations :
       (Sampled(i) /\ TwoAppsWithFiles(loc[i].label))
          => /\ loc[i].train_dominant_samples \cap loc[i].test_dominant_samples = {}
             /\ loc[i].train_minor_samples \cap loc[i].test_minor_samples = {}

C2_Witness ==
    \E i \in Invocations :
       /\ Sampled(i) /\ TwoAppsWithFiles(loc[i].label)
       /\ loc[i].train_dominant_samples # {} /\ loc[i].test_dominant_samples # {}
       /\ loc[i].train_minor_samples # {} /\ loc[i].test_minor_samples # {}

\* floor(total / (num/den)): the greatest q with q * num <= total * den
FloorOfQuotient(total, num, den) ==
    CHOOSE q \in 0..(total * den) : q * num <= total * den /\ (q + 1) * num > total * den

C6_EmptyClassSkipped ==
    \A i \in Invocations :
       arg[i].kind = "prop" =>
          /\ pc[i] # "error"
          /\ \A label \in labels :
                Applications(label) = {} =>
                   ~\E c \in out : c[1] = arg[i].out /\ c[3] = label
          /\ pc[i] = "done" =>
                \A label \in labels :
                   ((\E f \in files : f[1] = label)
                       /\ total_train_dominant_samples * arg[i].den >= arg[i].num)
                      => \E c \in out : c[1] = arg[i].out /\ c[2] = "train" /\ c[3] = label

C6_Witness ==
    \E i \in Invocations :
       /\ arg[i].kind = "prop" /\ pc[i] = "done"
       /\ \E label \in labels : Applications(label) = {}
       /\ \E c \in out : c[1] = arg[i].out

\* C10: the minor pool equals the dominant pool exactly when the class has a
\* single application or the non-dominant applications hold no file; in
\* every other case it is the union of the files of the non-dominant
\* applications and holds no file of the dominant one.
C10_MinorPool ==
    \A i \in Invocations :
       Sampled(i) =>
          LET l == loc[i]
              others == {f \in files : f[1] = l.label /\ f[2] # l.dominant_app}
              fallback == Cardinality(Applications(l.label)) = 1 \/ others = {}
          IN  /\ (l.minor_files = l.dominant_files) <=> fallback
              /\ ~fallback => /\ l.minor_files = others
                              /\ l.minor_files \cap l.dominant_files = {}

\* several applications, none but the dominant one holding files
C10_Witness ==
    \E i \in Invocations :
       /\ Sampled(i)
       /\ Cardinality(Applications(loc[i].label)) >= 2
       /\ ~\E f \in files : f[1] = loc[i].label /\ f[2] # loc[i].dominant_app
       /\ loc[i].dominant_files # {}
       /\ loc[i].minor_files = loc[i].dominant_files


(***************************************************************************)
(* Properties of create_compositional_bias_dataset (SpecComp)              *)
(***************************************************************************)
\* invocation i is a compositional one and cloc[i] holds its last service
Composed(i) == arg[i].kind = "comp" /\ cloc[i].service # ""

\* C4: the training subset of an entry with n applications holds exactly
\* ceil(n * p) applications, all of the entry's list; p = 1 gives the whole
\* list and p = 0.2 with n = 5 gives exactly one application.
C4_TrainingSubset ==
    \A i \in Invocations :
       /\ pc[i] # "error"
       /\ Composed(i) =>
             LET n == Cardinality(cloc[i].apps)
                 k == Cardinality(cloc[i].training_apps)
             IN  /\ cloc[i].training_apps \subseteq cloc[i].apps
                 /\ k * arg[i].den >= n * arg[i].num
                 /\ (k - 1) * arg[i].den < n * arg[i].num
                 /\ arg[i].num = arg[i].den => cloc[i].training_apps = cloc[i].apps
                 /\ (n = 5 /\ arg[i].num = 1 /\ arg[i].den = 5) => k = 1

C4_Witness ==
    \E i \in Invocations :
       /\ Composed(i)
       /\ Cardinality(cloc[i].apps) = 5
       /\ arg[i].num = 1 /\ arg[i].den = 5
       /\ Cardinality(cloc[i].training_apps) = 1

\* the services of the mapping handed to invocation i
ServicesOf(i) == {arg[i].components[n].service : n \in 1..Len(arg[i].components)}

\* C5 as stated: once the sampler has finished, for every service of the
\* mapping (with files on disk) the test split is a strict superset of the
\* train split.
C5_TestStrictSuperset ==
    \A i \in Invocations :
       (arg[i].kind = "comp" /\ pc[i] = "done") =>
          \A service \in {x \in ServicesOf(i) : \E f \in files : f[1] = x} :
             /\ Copied(arg[i].out, "train", service)
                   \subseteq Copied(arg[i].out, "test", service)
             /\ Copied(arg[i].out, "train", service)
                   # Copied(arg[i].out, "test", service)

\* C5 as amended: every file copied into train/<service> is also copied into
\* test/<service>, and what test holds beyond train is exactly the files of
\* the applications on disk that were left out of the training subset.
C5_TestSuperset ==
    \A i \in Invocations :
       arg[i].kind = "comp" =>
          /\ \A service \in ServicesOf(i) :
                Copied(arg[i].out, "train", service)
                   \subseteq Copied(arg[i].out, "test", service)
          /\ Composed(i) =>
                Copied(arg[i].out, "test", cloc[i].service)
                      \ Copied(arg[i].out, "train", cloc[i].service)
                   = {f \in files : /\ f[1] = cloc[i].service
                                     /\ f[2] \in cloc[i].apps \ cloc[i].training_apps}

C5_Witness ==
    \E i \in Invocations :
       /\ Composed(i) /\ pc[i] = "done"
       /\ Copied(arg[i].out, "train", cloc[i].service) # {}
       /\ Copied(arg[i].out, "test", cloc[i].service)
             # Copied(arg[i].out, "train", cloc[i].service)

(***************************************************************************)
(* Properties of __main__ (Spec)                                           *)
(***************************************************************************)
\* the invocations of __main__: kind, output dataset, ratio as num/den
ExpectedCalls ==
    << <<"prop", "NETD-1", 3, 1>>, <<"prop", "NETD-2", 1, 3>>,
       <<"comp", "NETD-3", 4, 5>>, <<"comp", "NETD-4", 1, 5>> >>

\* C7: if either root is not a directory no sampler runs and nothing is
\* created; otherwise the four invocations run in program order, each after
\* the one before it has returned.
C7_ValidateFirst ==
    /\ (~inputOK \/ ~outputOK) =>
          /\ calls = <<>>
          /\ out = {}
          /\ \A i \in Invocations : pc[i] = "idle"
    /\ calls = [n \in 1..Len(calls) |-> n]
    /\ \A i \in Invocations :
          /\ pc[i] # "idle" <=> i <= Len(calls)
          /\ pc[i] # "idle" =>
                /\ \A j \in 1..(i - 1) : pc[j] = "done"
                /\ <<arg[i].kind, arg[i].out, arg[i].num, arg[i].den>> = ExpectedCalls[i]
    /\ pcMain = "exit" => calls = <<1, 2, 3, 4>>

C7_Witness ==
    /\ pcMain = "exit"
    /\ calls = <<1, 2, 3, 4>>
    /\ \A i \in Invocations : pc[i] = "done" /\ OutputOf(arg[i].out) # {}


(***************************************************************************)
(* Properties of the four invocations run side by side (SpecPar)           *)
(***************************************************************************)
\* what a run of proportional invocation i on its own can leave for a class
SequentialClass(i, label) ==
    LET T == Copied(arg[i].out, "train", label)
        E == Copied(arg[i].out, "test", label)
        cap(k, S) == IF k < Cardinality(S) THEN k ELSE Cardinality(S)
        want == FloorOfQuotient(total_train_dominant_samples, arg[i].num, arg[i].den)
    IN  IF Applications(label) = {}
        THEN T = {} /\ E = {}
        ELSE \E d \in Applications(label) :
                LET dom == {f \in files : f[1] = label /\ f[2] = d}
                    oth == {f \in files : f[1] = label /\ f[2] # d}
                    min == IF Cardinality(Applications(label)) = 1 \/ oth = {}
                           THEN dom ELSE oth
                IN  \E trd \in SUBSET dom, trm \in SUBSET min :
                       /\ Cardinality(trd) = cap(total_train_dominant_samples, dom)
                       /\ Cardinality(trm) = cap(want, min)
                       /\ T = trd \cup trm
                       /\ \E ted \in SUBSET (dom \ trd), tem \in SUBSET (min \ trm) :
                             /\ Cardinality(ted) = cap(total_test_samples, dom \ trd)
                             /\ Cardinality(tem) = cap(total_test_samples, min \ trm)
                             /\ E = ted \cup tem

\* what a run of compositional invocation i on its own can leave for an entry
SequentialService(i, entry) ==
    LET apps == Range(entry.apps)
        onDisk(A) == {f \in files : f[1] = entry.service /\ f[2] \in A}
    IN  \E S \in SUBSET apps :
           /\ Cardinality(S) * arg[i].den >= Cardinality(apps) * arg[i].num
           /\ (Cardinality(S) - 1) * arg[i].den < Cardinality(apps) * arg[i].num
           /\ Copied(arg[i].out, "train", entry.service) = onDisk(S)
           /\ Copied(arg[i].out, "test", entry.service) = onDisk(apps)

\* the content of invocation i's subtree is one its own sequential run yields
SequentialOutcome(i) ==
    /\ \A c \in OutputOf(arg[i].out) : c[2] \in {"train", "test"}
    /\ IF arg[i].kind = "prop"
       THEN /\ \A c \in OutputOf(arg[i].out) : c[3] \in labels
            /\ \A label \in labels : SequentialClass(i, label)
       ELSE /\ \A c \in OutputOf(arg[i].out) : c[3] \in ServicesOf(i)
            /\ \A n \in 1..Len(arg[i].components) :
                  SequentialService(i, arg[i].components[n])

C9_Subtrees ==
    /\ \A i, j \in Invocations : i # j => arg[i].out # arg[j].out
    /\ \A c \in out : \E i \in Invocations : c[1] = arg[i].out
    /\ \A i \in Invocations : pc[i] = "done" => SequentialOutcome(i)

\* a step leaves the input tree alone and changes the subtree of no
\* invocation other than the one that takes it
C9_Step ==
    /\ tree' = tree
    /\ \A i \in Invocations :
          (pc'[i] = pc[i] /\ todo'[i] = todo[i])
             => OutputOf(arg[i].out)' = OutputOf(arg[i].out)

\* C9: under any interleaving of the four invocations, each writes only
\* under its own output subtree (the four being pairwise distinct), none
\* changes the input tree, and the final content of each subtree is one that
\* the invocation's sequential run alone could produce.
C9_Independent == []C9_Subtrees /\ [][C9_Step]_vars

C9_Witness ==
    /\ pcMain = "parallel"
    /\ \A i \in Invocations : pc[i] = "done" /\ OutputOf(arg[i].out) # {}
    /\ \E i, j \in Invocations : i # j /\ loc[i].label # "" /\ cloc[j].service # ""

(***************************************************************************)
(* Two seeded runs (SpecTwin)                                              *)
(***************************************************************************)
\* C8: two runs on identical inputs with the random source seeded alike
\* leave identical train and test file sets for every class.
C8_SameSeedSameOutput ==
    (pc[1] = "done" /\ pc[2] = "done") =>
       \A split \in {"train", "test"}, label \in labels :
          Copied(arg[1].out, split, label) = Copied(arg[2].out, split, label)

====
